---- MODULE Spec2Model ----
(***************************************************************************)
(* Model of the apiwatch monitoring engine:                                *)
(*   backend/app/workers/scheduler.py      start_scheduler, stop_scheduler *)
(*   backend/app/workers/health_checker.py check_api, save_health_check,   *)
(*                                         handle_incident,                *)
(*                                         perform_health_check,           *)
(*                                         check_all_active_monitors       *)
(*   backend/app/models/*.py               the rows of the three tables    *)
(*                                                                         *)
(* Every coroutine is cut at its await points: one action per await.       *)
(* A row's id is the key of the workflow that inserted it (the tables'      *)
(* autoincrement ids serve as identities only).                            *)
(* Optional values (Python None / SQL NULL) are sequences of length <= 1.  *)
(***************************************************************************)
EXTENDS Integers, Sequences, FiniteSets, TLC

VARIABLES
    scheduler,        \* scheduler.py `scheduler`: 0 is None, n > 0 the n-th AsyncIOScheduler
    schedulers,       \* every AsyncIOScheduler created so far: [state, jobs]
    cycles,           \* runs of check_all_active_monitors, in submission order
    tasks,            \* perform_health_check coroutines, keyed by <<cycle, monitor id>>
    skipped,          \* ticks refused by max_instances (APScheduler logs them)
    api_monitors,     \* table api_monitors: id -> row
    health_checks,    \* table health_checks: id -> row
    incidents,        \* table incidents: id -> row
    clock,            \* datetime.utcnow() of the application host, in clock ticks
    skew,             \* database server clock minus application clock, in clock ticks
    check_api_call,   \* one isolated call of HealthCheckExecutor.check_api
    replay,           \* two replays of one sequence of probe outcomes, each on its own store
    active_connections, \* WebSocketManager.active_connections: the list of websockets
    sockets,          \* every websocket: its endpoint coroutine and what the client got
    broadcasts,       \* calls of WebSocketManager.broadcast, in call order
    missed,           \* lateness (s) of the runs APScheduler dropped as misfired
    warned            \* the log holds start_scheduler's "Scheduler already running"

vars == <<scheduler, schedulers, cycles, tasks, skipped, api_monitors, health_checks,
          incidents, clock, skew, check_api_call, replay, active_connections, sockets,
          broadcasts, missed, warned>>

bus_vars == <<active_connections, sockets, broadcasts>>

engine_vars == <<scheduler, schedulers, cycles, tasks, skipped, api_monitors,
                 health_checks, incidents, clock, skew, missed, warned>>

----------------------------------------------------------------------------
(* Bounds of the model *)

NumMonitors == 2
MaxCycles == 2
MaxStarts == 2
MaxSkipped == 1
MaxClock == 2
MaxSkew == 2
NumSockets == 2
MaxBroadcasts == 2
MaxReplay == 3
MaxTexts == 1

(* Program constants *)

TicksPerSecond == 2
DefaultExpectedStatus == 200
DefaultTimeout == 10
MinTimeout == 1
MaxTimeout == 60
ConnectTimeout == 5

----------------------------------------------------------------------------
(* Optional values *)

None == <<>>
Some(v) == <<v>>
IsNone(o) == o = <<>>
IsSome(o) == o # <<>>
Get(o) == o[1]

\* Python int(x) of the quotient n/d, d > 0: truncation towards zero.
IntTrunc(n, d) == IF n >= 0 THEN n \div d ELSE -((-n) \div d)

\* Python round(n/d) to the nearest integer, ties to even, n >= 0, d > 0.
RoundHalfEven(n, d) ==
    LET q == n \div d
        r == n % d
    IN  IF 2 * r < d THEN q
        ELSE IF 2 * r > d THEN q + 1
        ELSE IF q % 2 = 0 THEN q ELSE q + 1

----------------------------------------------------------------------------
(* HealthCheckExecutor.check_api *)

\* httpx exception classes, by the except clause that catches them.
TimeoutExceptions == {"ConnectTimeout", "ReadTimeout", "WriteTimeout", "PoolTimeout"}
NetworkErrors == {"ConnectError", "ReadError", "WriteError", "CloseError"}
OtherExceptions == {"RemoteProtocolError", "TooManyRedirects", "UnsupportedProtocol",
                    "AttributeError"}
ExceptionClasses == TimeoutExceptions \cup NetworkErrors \cup OtherExceptions

IsTimeoutException(cls) == cls \in TimeoutExceptions
\* Variant: `except httpx.ConnectError` in place of httpx.NetworkError.
IsConnectErrorOnly(cls) == cls = "ConnectError"
IsNetworkError(cls) == cls \in NetworkErrors
IsException(cls) == cls \in ExceptionClasses

\* What `await self.client.request(...)` (and the lines around it inside the
\* try block) can produce: a response with a status code after elapsed_us
\* microseconds, or an exception of class cls whose str() is detail.
Response(status, elapsed_us) ==
    [kind |-> "response", status |-> status, elapsed_us |-> elapsed_us,
     cls |-> "", detail |-> ""]
Raises(cls, detail) ==
    [kind |-> "exception", status |-> 0, elapsed_us |-> 0, cls |-> cls, detail |-> detail]

\* Variant: the result starts out as up.
InitialResultUp ==
    [status_code |-> None, response_time |-> None, is_up |-> TRUE,
     error_message |-> None]

\* result = {"status_code": None, "response_time": None, "is_up": False, "error_message": None}
InitialResult ==
    [status_code |-> None, response_time |-> None, is_up |-> FALSE,
     error_message |-> None]

ExpectedStatusMessage(expected, got) ==
    "Expected status " \o ToString(expected) \o ", got " \o ToString(got)
TimeoutMessage(timeout) == "Request timeout after " \o ToString(timeout) \o "s"
NetworkErrorMessage(detail) == "Network error: " \o detail
UnexpectedErrorMessage(detail) == "Unexpected error: " \o detail

\* response_time: milliseconds rounded to 2 decimals, held in 1/100 ms.
ResponseTime(elapsed_us) == RoundHalfEven(elapsed_us, 10)

\* Variant: every response counts as up.
AnyStatusIsUp(status_code, expected_status) == TRUE

\* result["is_up"] = (response.status_code == monitor.expected_status)
StatusIsExpected(status_code, expected_status) == status_code = expected_status

\* timeout = httpx.Timeout(monitor.timeout, connect=5.0): the default goes to
\* the read, write and pool phases, the connect phase has its own limit.
\* All in seconds.
RequestTimeout(monitor) ==
    [connect |-> ConnectTimeout, read |-> monitor.timeout, write |-> monitor.timeout,
     pool |-> monitor.timeout]

\* Variant: the last clause catches httpx.HTTPError only.
CaughtIfHttpx(cls) == cls \in OtherExceptions \ {"AttributeError"}

\* The clause `except Exception` of check_api: which classes it catches.
CaughtAsUnexpected(cls) == IsException(cls)

\* [raised, value]: raised is TRUE when the exception leaves check_api.
check_api(monitor, outcome) ==
    IF outcome.kind = "response"
    THEN LET up == StatusIsExpected(outcome.status, monitor.expected_status)
         IN  [raised |-> FALSE,
              value |-> [status_code |-> Some(outcome.status),
                         response_time |-> Some(ResponseTime(outcome.elapsed_us)),
                         is_up |-> up,
                         error_message |->
                             IF up THEN None
                             ELSE Some(ExpectedStatusMessage(monitor.expected_status,
                                                             outcome.status))]]
    ELSE IF IsTimeoutException(outcome.cls)
    THEN [raised |-> FALSE,
          value |-> [InitialResult EXCEPT
                         !.error_message = Some(TimeoutMessage(monitor.timeout))]]
    ELSE IF IsNetworkError(outcome.cls)
    THEN [raised |-> FALSE,
          value |-> [InitialResult EXCEPT
                         !.error_message = Some(NetworkErrorMessage(outcome.detail))]]
    ELSE IF CaughtAsUnexpected(outcome.cls)
    THEN [raised |-> FALSE,
          value |-> [InitialResult EXCEPT
                         !.error_message = Some(UnexpectedErrorMessage(outcome.detail))]]
    ELSE [raised |-> TRUE, value |-> InitialResult]

----------------------------------------------------------------------------
(* The tables *)

MonitorIds == 1..NumMonitors

\* APIMonitor row (the columns the worker reads).
MonitorRow(expected_status, timeout, is_active) ==
    [expected_status |-> expected_status, timeout |-> timeout, is_active |-> is_active]

\* The database server's now(): server_default=func.now().
DbNow == clock + skew

\* Incident(monitor_id=..., alert_sent=False) as inserted: started_at by the
\* server default, resolved_at and duration NULL.
NewIncident(monitor_id) ==
    [monitor_id |-> monitor_id, started_at |-> DbNow, resolved_at |-> None,
     duration |-> None, alert_sent |-> FALSE]

\* Variant: the row is inserted without the result's error_message.
NewHealthCheckWithoutMessage(monitor_id, result) ==
    [monitor_id |-> monitor_id, status_code |-> result.status_code,
     response_time |-> result.response_time, is_up |-> result.is_up,
     error_message |-> None, checked_at |-> DbNow]

\* HealthCheck(monitor_id=..., **result) as inserted.
NewHealthCheck(monitor_id, result) ==
    [monitor_id |-> monitor_id, status_code |-> result.status_code,
     response_time |-> result.response_time, is_up |-> result.is_up,
     error_message |-> result.error_message, checked_at |-> DbNow]

\* Variant: the query lacks `resolved_at IS NULL`.
IncidentsOfMonitor(tbl, m) == {i \in DOMAIN tbl : tbl[i].monitor_id = m}

\* select(Incident).where(monitor_id == m, resolved_at IS NULL): the ids.
OngoingIncidents(tbl, m) ==
    {i \in DOMAIN tbl : tbl[i].monitor_id = m /\ IsNone(tbl[i].resolved_at)}

\* Variant: result.scalars().first(), which takes a row when there are several.
scalars_first(rows) ==
    IF rows = {} THEN [raised |-> FALSE, value |-> None]
    ELSE [raised |-> FALSE, value |-> Some(CHOOSE i \in rows : TRUE)]

\* result.scalar_one_or_none(): None for no row, the row for one, and
\* MultipleResultsFound for more.
scalar_one_or_none(rows) ==
    IF rows = {} THEN [raised |-> FALSE, value |-> None]
    ELSE IF Cardinality(rows) = 1
    THEN [raised |-> FALSE, value |-> Some(CHOOSE i \in rows : TRUE)]
    ELSE [raised |-> TRUE, value |-> None]

\* Variant: the query lacks `is_active == True`.
AllMonitors == DOMAIN api_monitors

\* select(APIMonitor).where(is_active == True): the rows, by id.
ActiveMonitors == {m \in DOMAIN api_monitors : api_monitors[m].is_active}

\* All rows of one monitor, with their ids (what the incident tracker of one
\* monitor can see).
MonitorIncidents(tbl, m) ==
    {[id |-> i, row |-> tbl[i]] : i \in {j \in DOMAIN tbl : tbl[j].monitor_id = m}}

----------------------------------------------------------------------------
(* handle_incident: its decisions *)

\* Variant: an incident is created on every failed check.
CreatesOnEveryFailure(is_up, ongoing) == ~is_up

\* `if not is_up: if not ongoing_incident:` -- the create branch.
CreatesIncident(is_up, ongoing) == ~is_up /\ IsNone(ongoing)

\* Variant: a passing check never resolves.
ResolvesNever(is_up, ongoing) == FALSE

\* `else: if ongoing_incident:` -- the resolve branch.
ResolvesIncident(is_up, ongoing) == is_up /\ IsSome(ongoing)

\* duration = (now - started_at).total_seconds(); int(duration)
IncidentDuration(now, started_at) == IntTrunc(now - started_at, TicksPerSecond)

\* Variant: the create branch falls through to `return None`.
ReturnNothing(id) == None

\* `return incident` of the create branch and `return ongoing_incident` of
\* the resolve branch; `return None` otherwise.
ReturnCreated(id) == Some(id)
ReturnResolved(id) == Some(id)

\* handle_incident(monitor_id, is_up) run from its query to its return on the
\* table tbl with the store answering: [raised, tbl, ret].  A created row
\* gets the identity id.
handle_incident(tbl, monitor_id, is_up, id) ==
    LET found == scalar_one_or_none(OngoingIncidents(tbl, monitor_id))
        ongoing == found.value
    IN  IF found.raised
        THEN [raised |-> TRUE, tbl |-> tbl, ret |-> None]
        ELSE IF CreatesIncident(is_up, ongoing)
        THEN [raised |-> FALSE, tbl |-> tbl @@ (id :> NewIncident(monitor_id)),
              ret |-> ReturnCreated(id)]
        ELSE IF ResolvesIncident(is_up, ongoing)
        THEN [raised |-> FALSE,
              tbl |-> [tbl EXCEPT
                          ![Get(ongoing)].resolved_at = Some(clock),
                          ![Get(ongoing)].duration =
                              Some(IncidentDuration(clock, tbl[Get(ongoing)].started_at))],
              ret |-> ReturnResolved(Get(ongoing))]
        ELSE [raised |-> FALSE, tbl |-> tbl, ret |-> None]

----------------------------------------------------------------------------
(* The scheduler (APScheduler's AsyncIOScheduler as scheduler.py drives it) *)

JobId == "health_check_job"
MaxInstances == 1
MisfireGraceTime == 30

\* Variant: start_scheduler without `if scheduler is not None`.
NoSchedulerSeen == FALSE

\* `if scheduler is not None:` of start_scheduler.
SchedulerExists == scheduler # 0

\* AsyncIOScheduler() with the job added and started.
NewScheduler == [state |-> "running", jobs |-> {JobId}]

\* Variant: stop_scheduler only forgets the scheduler, without shutdown.
LeftRunning(s) == s

\* scheduler.shutdown(wait=True): the scheduler stops, its job store is
\* emptied, the timer fires no more.
AfterShutdown(s) == [s EXCEPT !.state = "shutdown", !.jobs = {}]

\* Variant: the run is dropped from the grace time on.
MisfiredAtGrace(late) == late >= MisfireGraceTime

\* add_job(..., misfire_grace_time=30): APScheduler drops a run that starts
\* more than the grace time after its run time.
Misfired(late) == late > MisfireGraceTime

\* Variant: a run that raised keeps its instance.
RunningUntilDone(c) == cycles[c].pc \in {"loading", "gathering", "failed"}

CycleRunning(c) == cycles[c].pc \in {"loading", "gathering"}

\* Instances of the job of scheduler n that are executing.
RunningInstances(n) == {c \in 1..Len(cycles) : cycles[c].sched = n /\ CycleRunning(c)}

\* Variant: no limit on the instances of the job.
NoInstanceLimit(n) == FALSE

\* add_job(..., max_instances=1): a run is refused while that many run.
MaxInstancesReached(n) == Cardinality(RunningInstances(n)) >= MaxInstances

\* Variant: the shutdown leaves the executing job alone.
ShutdownCancelsNothing(n) == {}

\* scheduler.shutdown(wait=True) on an AsyncIOScheduler: the asyncio executor
\* cannot wait inside the event loop; it cancels the futures of the jobs that
\* are executing.  These are the cycles whose task is cancelled.
CancelledByShutdown(n) == RunningInstances(n)

\* A run of check_all_active_monitors as submitted: `late` is how long after
\* its run time, `summary` is what the call returns.
NewCycle(n, late) ==
    [sched |-> n, pc |-> "loading", monitors |-> <<>>, late |-> late, summary |-> None]

NewTask(row) ==
    [pc |-> "check_api", status |-> "running", monitor |-> row, outcome |-> None,
     result |-> None,
     ongoing |-> None, now |-> None, duration |-> None, ret |-> None,
     pre |-> {}, saved |-> FALSE, handled |-> FALSE]

TaskKeys == DOMAIN tasks
TasksOf(c) == {k \in TaskKeys : k[1] = c}
Finished(k) == tasks[k].pc = "done"

\* Variant: the workflow never gets out of its `finally`.
HangsInClose(t, status) == [t EXCEPT !.pc = "closing", !.status = status]

\* The task ends: normally, or by an exception that perform_health_check's
\* `except Exception` logs.
End(t, status) == [t EXCEPT !.pc = "done", !.status = status]

\* Variant: the cycle goes on when the first workflow has ended.
FirstWorkflowEnded(c) == \E k \in TasksOf(c) : Finished(k)

\* `await asyncio.gather(*tasks, return_exceptions=True)` is over: every
\* workflow of the cycle has ended.
AllWorkflowsEnded(c) == \A k \in TasksOf(c) : Finished(k)

\* Variant: save_health_check is not called.
SkipsSave == "query"

\* perform_health_check after check_api has returned: save_health_check.
NextAfterProbe == "save"

\* Variant: a failed save is logged and handle_incident is called all the same.
ContinuesAfterSaveFailure(t) == [t EXCEPT !.pc = "query"]

\* save_health_check raises inside perform_health_check's try block: the
\* workflow ends in `except Exception`, handle_incident is not called.
AfterSaveFailure(t) == End(t, "errored")

\* Variant: the exception leaves the workflow and the gather, and ends the cycle.
WorkflowErrorAbortsCycle(c) == [cycles EXCEPT ![c].pc = "failed"]

\* What an exception inside the workflow of cycle c does to the cycle:
\* nothing, perform_health_check logs it and returns (and gather is called
\* with return_exceptions=True).
AfterWorkflowError(c) == cycles

----------------------------------------------------------------------------
(* WebSocketManager (websocket/manager.py) and the /ws endpoint *)

Sockets == 1..NumSockets

Range(list) == {list[i] : i \in 1..Len(list)}

\* list.remove(x): the first occurrence of x is taken out.
ListRemove(list, x) ==
    LET at == CHOOSE i \in 1..Len(list) :
                  list[i] = x /\ \A j \in 1..(i - 1) : list[j] # x
    IN  [i \in 1..(Len(list) - 1) |-> IF i < at THEN list[i] ELSE list[i + 1]]

\* Variant: disconnect drops the last connection of the list.
DropLast(list, websocket) ==
    IF list = <<>> THEN list ELSE SubSeq(list, 1, Len(list) - 1)

\* WebSocketManager.disconnect: remove the websocket if it is registered.
disconnect(list, websocket) ==
    IF websocket \in Range(list) THEN ListRemove(list, websocket) ELSE list

\* `for connection in disconnected: self.disconnect(connection)`
RECURSIVE RemoveFailed(_, _)
RemoveFailed(list, disconnected) ==
    IF disconnected = <<>> THEN list
    ELSE RemoveFailed(disconnect(list, Head(disconnected)), Tail(disconnected))

\* The list iterator of `for connection in self.active_connections`: it holds
\* the number of items it has yielded and has a next item while that number
\* is below the list's length at the time it is asked.
HasNext(index, list) == index < Len(list)

\* The messages.  A broadcast's message carries the number of the call.
ConnectedMessage == [type |-> "connected", id |-> 0]
PongMessage == [type |-> "pong", id |-> 0]
BroadcastMessage(b) == [type |-> "stats_updated", id |-> b]

\* A websocket whose endpoint has been entered: the coroutine is at
\* ws_manager.connect, the client is there, nothing was sent.  `after` is the
\* set of broadcast calls that had returned when it was registered, `texts`
\* the text messages the endpoint has read.
NewSocket ==
    [pc |-> "connect", peer |-> "open", received |-> <<>>, after |-> {}, texts |-> <<>>]

\* The text messages clients send, and how many the endpoints have read.
ClientTexts == {"ping", "hello"}
TextsRead == LET RECURSIVE Sum(_)
                 Sum(ws) == IF ws = {} THEN 0
                            ELSE LET w == CHOOSE x \in ws : TRUE
                                 IN  Len(sockets[w].texts) + Sum(ws \ {w})
             IN  Sum(Sockets)

\* Variant: every text message is answered.
RepliesToAny(data) == TRUE

\* `if data == "ping":` of the endpoint's receive loop.
RepliesTo(data) == data = "ping"

\* Variant: the message goes to every registered connection.
EveryConnection(websocket) == Range(active_connections)

\* send_personal_message(message, websocket): the one websocket it sends to.
PersonalRecipients(websocket) == {websocket}

\* websocket.send_json raises when the client has gone.
SendRaises(websocket) == sockets[websocket].peer = "gone"

\* Variant: the sends to one websocket end in any order.
NoSendOrder(websocket) == FALSE

\* The endpoint calls send_personal_message right after connect has appended
\* the websocket, with no await in between: while that send is pending it is
\* ahead of every send a broadcast has made to the websocket, and the sends
\* to one connection go out in the order of their calls.
WelcomePending(websocket) == sockets[websocket].pc = "welcome"

ReturnedEndpoints == {w \in Sockets : sockets[w].pc = "done"}
SendingBroadcasts == {b \in 1..Len(broadcasts) : broadcasts[b].pc = "sending"}
ReturnedBroadcasts == {b \in 1..Len(broadcasts) : broadcasts[b].pc = "done"}

\* Variant: connect replays the events of the broadcasts called so far.
ConnectReplays(websocket) ==
    [b \in 1..Len(broadcasts) |-> BroadcastMessage(b)]

\* What WebSocketManager.connect sends to the websocket it registers:
\* nothing, it accepts and appends.
ConnectSends(websocket) == <<>>

\* The broadcasts in progress see the list change under their iterator:
\* `removed` and `added` collect the websockets that left and joined the
\* list while the call was sending.
NoteChange(bs, gone, come) ==
    [b \in 1..Len(bs) |->
        IF bs[b].pc = "sending"
        THEN [bs[b] EXCEPT !.removed = @ \cup gone, !.added = @ \cup come]
        ELSE bs[b]]

\* The websockets to which some delivery of a broadcast has raised.
FailedSockets == UNION {Range(broadcasts[b].disconnected) : b \in 1..Len(broadcasts)}

----------------------------------------------------------------------------
(* Initial states *)

\* The registry the engine starts from: every monitor with the column
\* defaults, active or not.
Registries ==
    [MonitorIds -> {MonitorRow(DefaultExpectedStatus, DefaultTimeout, a) : a \in BOOLEAN}]

\* What the probes of the engine meet.
EngineOutcomes ==
    {Response(200, 1234), Response(500, 1234), Raises("ConnectError", "refused")}

\* No websocket has connected and broadcast was never called.
BusIdle ==
    /\ active_connections = <<>>
    /\ sockets = [w \in Sockets |-> NewSocket]
    /\ broadcasts = <<>>

Init ==
    /\ scheduler = 0
    /\ schedulers = <<>>
    /\ cycles = <<>>
    /\ tasks = <<>>
    /\ skipped = 0
    /\ missed = {}
    /\ warned = FALSE
    /\ api_monitors \in Registries
    /\ health_checks = <<>>
    /\ incidents = <<>>
    /\ clock = 0
    /\ skew = 0
    /\ check_api_call = None
    /\ replay = None
    /\ BusIdle

----------------------------------------------------------------------------
(* scheduler.py *)

\* start_scheduler(): a no-op with a warning when a scheduler exists; else a
\* new AsyncIOScheduler with the one job, started.
start_scheduler ==
    /\ \/ /\ SchedulerExists
          /\ warned' = TRUE
          /\ UNCHANGED <<scheduler, schedulers>>
       \/ /\ ~SchedulerExists
          /\ Len(schedulers) < MaxStarts
          /\ schedulers' = Append(schedulers, NewScheduler)
          /\ scheduler' = Len(schedulers) + 1
          /\ UNCHANGED warned
    /\ UNCHANGED <<cycles, tasks, skipped, api_monitors, health_checks, incidents,
                   clock, skew, check_api_call, replay, bus_vars, missed>>

\* stop_scheduler(): nothing without a scheduler; else shutdown(wait=True),
\* which stops the timer and cancels the executing job, and scheduler = None.
\* Cancelling the cycle's task cancels the gathered workflows: each stops at
\* the await it is suspended on (CancelledError is not an Exception) and its
\* frame is gone.
stop_scheduler ==
    /\ \/ /\ scheduler = 0
          /\ UNCHANGED <<scheduler, schedulers, cycles, tasks>>
       \/ /\ scheduler # 0
          /\ LET cancelled == CancelledByShutdown(scheduler)
             IN  /\ cycles' = [c \in 1..Len(cycles) |->
                                 IF c \in cancelled
                                 THEN [cycles[c] EXCEPT !.pc = "cancelled"]
                                 ELSE cycles[c]]
                 /\ tasks' = [k \in {j \in TaskKeys : j[1] \notin cancelled} |-> tasks[k]]
          /\ schedulers' = [schedulers EXCEPT ![scheduler] = AfterShutdown(@)]
          /\ scheduler' = 0
    /\ UNCHANGED <<skipped, api_monitors, health_checks, incidents, clock, skew,
                   check_api_call, replay, bus_vars, missed, warned>>

\* Scheduler n processes a run of the job `late` seconds after its run
\* time: the job is submitted unless max_instances is reached, and then the
\* run is skipped; a submitted run that is late beyond the grace time is
\* dropped as missed, any other starts check_all_active_monitors.
Fire(n, late) ==
    /\ schedulers[n].state = "running"
    /\ JobId \in schedulers[n].jobs
    /\ \/ /\ MaxInstancesReached(n)
          /\ skipped < MaxSkipped
          /\ skipped' = skipped + 1
          /\ UNCHANGED <<cycles, missed>>
       \/ /\ ~MaxInstancesReached(n)
          /\ IF Misfired(late)
             THEN /\ missed' = missed \cup {late}
                  /\ UNCHANGED cycles
             ELSE /\ Len(cycles) < MaxCycles
                  /\ cycles' = Append(cycles, NewCycle(n, late))
                  /\ UNCHANGED missed
          /\ UNCHANGED skipped
    /\ UNCHANGED <<scheduler, schedulers, tasks, api_monitors, health_checks,
                   incidents, clock, skew, check_api_call, replay, bus_vars, warned>>

\* The interval trigger of scheduler n fires on time.
Tick(n) == Fire(n, 0)

----------------------------------------------------------------------------
(* health_checker.py *)

\* check_all_active_monitors up to asyncio.gather: the query of the active
\* monitors raises, finds none (return), or one workflow per row is started.
LoadMonitors(c) ==
    /\ cycles[c].pc = "loading"
    /\ \/ /\ cycles' = [cycles EXCEPT ![c].pc = "failed"]
          /\ UNCHANGED tasks
       \/ /\ ActiveMonitors = {}
          /\ cycles' = [cycles EXCEPT ![c].pc = "done"]
          /\ UNCHANGED tasks
       \/ /\ ActiveMonitors # {}
          /\ LET rows == [m \in ActiveMonitors |-> api_monitors[m]]
             IN  /\ cycles' = [cycles EXCEPT ![c].pc = "gathering", ![c].monitors = rows]
                 /\ tasks' = [k \in TaskKeys \cup ({c} \X ActiveMonitors) |->
                                 IF k \in TaskKeys THEN tasks[k]
                                 ELSE NewTask(rows[k[2]])]
    /\ UNCHANGED <<scheduler, schedulers, skipped, api_monitors, health_checks,
                   incidents, clock, skew, check_api_call, replay, bus_vars, missed, warned>>

\* perform_health_check: `result = await executor.check_api(monitor)`.
Probe(k) ==
    /\ tasks[k].pc = "check_api"
    /\ \E o \in EngineOutcomes :
          LET r == check_api(tasks[k].monitor, o)
          IN  /\ tasks' = [tasks EXCEPT ![k] =
                              IF r.raised THEN End([@ EXCEPT !.outcome = Some(o)], "errored")
                              ELSE [@ EXCEPT !.pc = NextAfterProbe, !.outcome = Some(o),
                                             !.result = Some(r.value)]]
              /\ cycles' = IF r.raised THEN AfterWorkflowError(k[1]) ELSE cycles
    /\ UNCHANGED <<scheduler, schedulers, skipped, api_monitors, health_checks,
                   incidents, clock, skew, check_api_call, replay, bus_vars, missed, warned>>

\* save_health_check: db.add, commit, refresh; or the store raises.
Save(k) ==
    /\ tasks[k].pc = "save"
    /\ \/ /\ health_checks' = health_checks @@
                                  (k :> NewHealthCheck(k[2], Get(tasks[k].result)))
          /\ tasks' = [tasks EXCEPT ![k].pc = "query", ![k].saved = TRUE]
          /\ UNCHANGED cycles
       \/ /\ tasks' = [tasks EXCEPT ![k] = AfterSaveFailure(@)]
          /\ cycles' = AfterWorkflowError(k[1])
          /\ UNCHANGED health_checks
    /\ UNCHANGED <<scheduler, schedulers, skipped, api_monitors, incidents,
                   clock, skew, check_api_call, replay, bus_vars, missed, warned>>

\* handle_incident up to its commit: the query of the ongoing incident and
\* the branch taken on it.  The two branches without a transition return
\* None here; the other two go on to their commit.
Query(k) ==
    /\ tasks[k].pc = "query"
    /\ LET m == k[2]
           is_up == Get(tasks[k].result).is_up
           found == scalar_one_or_none(OngoingIncidents(incidents, m))
           ongoing == found.value
           seen == [tasks[k] EXCEPT !.ongoing = ongoing,
                                    !.pre = MonitorIncidents(incidents, m)]
       IN  \/ /\ tasks' = [tasks EXCEPT ![k] = End(@, "errored")]
              /\ cycles' = AfterWorkflowError(k[1])
           \/ /\ found.raised
              /\ tasks' = [tasks EXCEPT ![k] = End(seen, "errored")]
              /\ cycles' = AfterWorkflowError(k[1])
           \/ /\ ~found.raised
              /\ UNCHANGED cycles
              /\ tasks' = [tasks EXCEPT ![k] =
                    IF CreatesIncident(is_up, ongoing)
                    THEN [seen EXCEPT !.pc = "commit_create"]
                    ELSE IF ResolvesIncident(is_up, ongoing)
                    THEN [seen EXCEPT
                             !.pc = "commit_resolve",
                             !.now = Some(clock),
                             !.duration = Some(IncidentDuration(
                                 clock, incidents[Get(ongoing)].started_at))]
                    ELSE [End(seen, "ok") EXCEPT !.handled = TRUE, !.ret = None]]
    /\ UNCHANGED <<scheduler, schedulers, skipped, api_monitors, health_checks,
                   incidents, clock, skew, check_api_call, replay, bus_vars, missed, warned>>

\* handle_incident, create branch: db.add(incident), commit, refresh, return.
CommitCreate(k) ==
    /\ tasks[k].pc = "commit_create"
    /\ \/ /\ incidents' = incidents @@ (k :> NewIncident(k[2]))
          /\ tasks' = [tasks EXCEPT ![k] =
                          [End(@, "ok") EXCEPT !.handled = TRUE,
                                               !.ret = ReturnCreated(k)]]
          /\ UNCHANGED cycles
       \/ /\ tasks' = [tasks EXCEPT ![k] = End(@, "errored")]
          /\ cycles' = AfterWorkflowError(k[1])
          /\ UNCHANGED incidents
    /\ UNCHANGED <<scheduler, schedulers, skipped, api_monitors, health_checks,
                   clock, skew, check_api_call, replay, bus_vars, missed, warned>>

\* handle_incident, resolve branch: resolved_at and duration are set on the
\* row that was read, then commit, refresh, return.
CommitResolve(k) ==
    /\ tasks[k].pc = "commit_resolve"
    /\ LET id == Get(tasks[k].ongoing)
       IN  \/ /\ incidents' = [incidents EXCEPT ![id].resolved_at = tasks[k].now,
                                                ![id].duration = tasks[k].duration]
              /\ tasks' = [tasks EXCEPT ![k] =
                              [End(@, "ok") EXCEPT !.handled = TRUE,
                                                   !.ret = ReturnResolved(id)]]
              /\ UNCHANGED cycles
           \/ /\ tasks' = [tasks EXCEPT ![k] = End(@, "errored")]
              /\ cycles' = AfterWorkflowError(k[1])
              /\ UNCHANGED incidents
    /\ UNCHANGED <<scheduler, schedulers, skipped, api_monitors, health_checks,
                   clock, skew, check_api_call, replay, bus_vars, missed, warned>>

\* check_all_active_monitors after asyncio.gather(*tasks,
\* return_exceptions=True): every workflow has ended, the cycle is complete
\* and the workflows' frames are gone.
CycleComplete(c) ==
    /\ cycles[c].pc = "gathering"
    /\ AllWorkflowsEnded(c)
    /\ cycles' = [cycles EXCEPT ![c].pc = "done"]
    /\ tasks' = [k \in TaskKeys \ {j \in TasksOf(c) : Finished(j)} |-> tasks[k]]
    /\ UNCHANGED <<scheduler, schedulers, skipped, api_monitors, health_checks,
                   incidents, clock, skew, check_api_call, replay, bus_vars, missed, warned>>

\* Time passes on the application host.
AdvanceClock ==
    /\ clock < MaxClock
    /\ clock' = clock + 1
    /\ UNCHANGED <<scheduler, schedulers, cycles, tasks, skipped, api_monitors,
                   health_checks, incidents, skew, check_api_call, replay, bus_vars,
                   missed, warned>>

----------------------------------------------------------------------------
(* The engine, with time abstracted (the clocks stand still) *)

Next ==
    \/ start_scheduler
    \/ stop_scheduler
    \/ \E n \in 1..Len(schedulers) : Tick(n)
    \/ \E c \in 1..Len(cycles) : LoadMonitors(c)
    \/ \E k \in TaskKeys : Probe(k)
    \/ \E k \in TaskKeys : Save(k)
    \/ \E k \in TaskKeys : Query(k)
    \/ \E k \in TaskKeys : CommitCreate(k)
    \/ \E k \in TaskKeys : CommitResolve(k)
    \/ \E c \in 1..Len(cycles) : CycleComplete(c)

Spec == Init /\ [][Next]_vars

----------------------------------------------------------------------------
(* The engine under the event loop's scheduling: a coroutine whose awaited *)
(* call has returned is resumed.  Every probe returns (httpx raises at the *)
(* request's timeout) and every store call returns or raises, so each step *)
(* of a cycle and of a workflow that can be taken is taken in the end.     *)
(* The scheduler has been started and runs throughout, over any registry.  *)

CycleIds == 1..MaxCycles

Fairness ==
    /\ \A c \in CycleIds :
          /\ WF_vars(c <= Len(cycles) /\ LoadMonitors(c))
          /\ WF_vars(c <= Len(cycles) /\ CycleComplete(c))
    /\ \A k \in CycleIds \X MonitorIds :
          /\ WF_vars(k \in TaskKeys /\ Probe(k))
          /\ WF_vars(k \in TaskKeys /\ Save(k))
          /\ WF_vars(k \in TaskKeys /\ Query(k))
          /\ WF_vars(k \in TaskKeys /\ CommitCreate(k))
          /\ WF_vars(k \in TaskKeys /\ CommitResolve(k))

InitLive ==
    /\ scheduler = 1
    /\ schedulers = <<NewScheduler>>
    /\ cycles = <<>>
    /\ tasks = <<>>
    /\ skipped = 0
    /\ missed = {}
    /\ warned = FALSE
    /\ api_monitors \in Registries
    /\ health_checks = <<>>
    /\ incidents = <<>>
    /\ clock = 0
    /\ skew = 0
    /\ check_api_call = None
    /\ replay = None
    /\ BusIdle

NextLive ==
    \/ \E n \in 1..Len(schedulers) : Tick(n)
    \/ \E c \in 1..Len(cycles) : LoadMonitors(c)
    \/ \E k \in TaskKeys : Probe(k)
    \/ \E k \in TaskKeys : Save(k)
    \/ \E k \in TaskKeys : Query(k)
    \/ \E k \in TaskKeys : CommitCreate(k)
    \/ \E k \in TaskKeys : CommitResolve(k)
    \/ \E c \in 1..Len(cycles) : CycleComplete(c)

SpecLive == InitLive /\ [][NextLive]_vars /\ Fairness

----------------------------------------------------------------------------
(* The engine over a store that never fails: no query, insert or commit    *)
(* raises, so no cycle fails at its query and no workflow ends in          *)
(* `except Exception`.                                                     *)

StoreSucceeds ==
    /\ \A c \in 1..Len(cycles) : cycles[c].pc # "failed"
    /\ \A k \in TaskKeys : tasks[k].status # "errored"

NextStored ==
    \/ start_scheduler
    \/ stop_scheduler
    \/ \E n \in 1..Len(schedulers) : Tick(n)
    \/ \E c \in 1..Len(cycles) : LoadMonitors(c) /\ StoreSucceeds'
    \/ \E k \in TaskKeys : Probe(k) /\ StoreSucceeds'
    \/ \E k \in TaskKeys : Save(k) /\ StoreSucceeds'
    \/ \E k \in TaskKeys : Query(k) /\ StoreSucceeds'
    \/ \E k \in TaskKeys : CommitCreate(k) /\ StoreSucceeds'
    \/ \E k \in TaskKeys : CommitResolve(k) /\ StoreSucceeds'
    \/ \E c \in 1..Len(cycles) : CycleComplete(c)

SpecStored == Init /\ [][NextStored]_vars

----------------------------------------------------------------------------
(* The engine on a database in which monitor 1 has two open incidents, as  *)
(* writers outside this engine (a second instance of the service on the    *)
(* same database) can leave it.  Both monitors are active.                 *)

DoubleOpenMonitor == 1

DoubleOpen ==
    (<<0, DoubleOpenMonitor>> :> NewIncident(DoubleOpenMonitor))
        @@ (<<-1, DoubleOpenMonitor>> :> NewIncident(DoubleOpenMonitor))

InitDouble ==
    /\ scheduler = 0
    /\ schedulers = <<>>
    /\ cycles = <<>>
    /\ tasks = <<>>
    /\ skipped = 0
    /\ missed = {}
    /\ warned = FALSE
    /\ api_monitors = [m \in MonitorIds |->
                          MonitorRow(DefaultExpectedStatus, DefaultTimeout, TRUE)]
    /\ health_checks = <<>>
    /\ clock = 0
    /\ skew = 0
    /\ incidents = DoubleOpen
    /\ check_api_call = None
    /\ replay = None
    /\ BusIdle

SpecDouble == InitDouble /\ [][Next]_vars

----------------------------------------------------------------------------
(* The engine with its two clocks: the application host's utcnow() and the *)
(* database server's now(), which differ by a skew.  One monitor is active. *)

InitTimed ==
    /\ scheduler = 0
    /\ schedulers = <<>>
    /\ cycles = <<>>
    /\ tasks = <<>>
    /\ skipped = 0
    /\ missed = {}
    /\ warned = FALSE
    /\ api_monitors = [m \in MonitorIds |->
                          MonitorRow(DefaultExpectedStatus, DefaultTimeout, m = 1)]
    /\ health_checks = <<>>
    /\ incidents = <<>>
    /\ clock = 0
    /\ skew \in -MaxSkew..MaxSkew
    /\ check_api_call = None
    /\ replay = None
    /\ BusIdle

NextTimed == Next \/ AdvanceClock

SpecTimed == InitTimed /\ [][NextTimed]_vars

----------------------------------------------------------------------------
(* The engine with late runs: the scheduler gets to a run of the job on    *)
(* time, at the end of the grace time, or beyond it.  One monitor is       *)
(* active.                                                                 *)

Lateness == {0, MisfireGraceTime, MisfireGraceTime + 1}

InitLate ==
    /\ scheduler = 0
    /\ schedulers = <<>>
    /\ cycles = <<>>
    /\ tasks = <<>>
    /\ skipped = 0
    /\ missed = {}
    /\ warned = FALSE
    /\ api_monitors = [m \in MonitorIds |->
                          MonitorRow(DefaultExpectedStatus, DefaultTimeout, m = 1)]
    /\ health_checks = <<>>
    /\ incidents = <<>>
    /\ clock = 0
    /\ skew = 0
    /\ check_api_call = None
    /\ replay = None
    /\ BusIdle

NextLate ==
    \/ Next
    \/ \E n \in 1..Len(schedulers), late \in Lateness : Fire(n, late)

SpecLate == InitLate /\ [][NextLate]_vars

----------------------------------------------------------------------------
(* The engine while the monitors are edited through the API               *)
(* (api/monitors.py): a monitor is created, a monitor is switched on or    *)
(* off.  The scheduler has been started and runs throughout; the table     *)
(* starts with one active monitor.                                         *)

\* create_monitor: the new row gets the next id, is_active from the request.
create_monitor(is_active) ==
    /\ Len(api_monitors) < NumMonitors
    /\ api_monitors' = Append(api_monitors,
                              MonitorRow(DefaultExpectedStatus, DefaultTimeout, is_active))
    /\ UNCHANGED <<scheduler, schedulers, cycles, tasks, skipped, health_checks,
                   incidents, clock, skew, check_api_call, replay, bus_vars, missed, warned>>

\* update_monitor with is_active in the request: the row is read, the field
\* set and committed.
update_monitor(monitor_id, is_active) ==
    /\ monitor_id \in DOMAIN api_monitors
    /\ api_monitors[monitor_id].is_active # is_active
    /\ api_monitors' = [api_monitors EXCEPT ![monitor_id].is_active = is_active]
    /\ UNCHANGED <<scheduler, schedulers, cycles, tasks, skipped, health_checks,
                   incidents, clock, skew, check_api_call, replay, bus_vars, missed, warned>>

InitConfig ==
    /\ scheduler = 1
    /\ schedulers = <<NewScheduler>>
    /\ cycles = <<>>
    /\ tasks = <<>>
    /\ skipped = 0
    /\ missed = {}
    /\ warned = FALSE
    /\ api_monitors = <<MonitorRow(DefaultExpectedStatus, DefaultTimeout, TRUE)>>
    /\ health_checks = <<>>
    /\ incidents = <<>>
    /\ clock = 0
    /\ skew = 0
    /\ check_api_call = None
    /\ replay = None
    /\ BusIdle

NextConfig ==
    \/ \E n \in 1..Len(schedulers) : Tick(n)
    \/ \E c \in 1..Len(cycles) : LoadMonitors(c)
    \/ \E k \in TaskKeys : Probe(k)
    \/ \E k \in TaskKeys : Save(k)
    \/ \E k \in TaskKeys : Query(k)
    \/ \E k \in TaskKeys : CommitCreate(k)
    \/ \E k \in TaskKeys : CommitResolve(k)
    \/ \E c \in 1..Len(cycles) : CycleComplete(c)
    \/ \E is_active \in BOOLEAN : create_monitor(is_active)
    \/ \E m \in MonitorIds, is_active \in BOOLEAN : update_monitor(m, is_active)

SpecConfig == InitConfig /\ [][NextConfig]_vars

----------------------------------------------------------------------------
(* check_api alone: one call on any monitor row and any outcome of the *)
(* request.                                                             *)

ProbeMonitors ==
    {MonitorRow(e, t, TRUE) : e \in {200, 204, 404},
                              t \in {MinTimeout, DefaultTimeout, MaxTimeout}}

ProbeOutcomes ==
    {Response(st, us) : st \in {200, 204, 404, 500}, us \in {0, 1234, 1235}}
    \cup {Raises(cls, d) : cls \in ExceptionClasses, d \in {"", "boom"}}

InitProbe ==
    /\ scheduler = 0
    /\ schedulers = <<>>
    /\ cycles = <<>>
    /\ tasks = <<>>
    /\ skipped = 0
    /\ missed = {}
    /\ warned = FALSE
    /\ api_monitors = [m \in MonitorIds |->
                          MonitorRow(DefaultExpectedStatus, DefaultTimeout, TRUE)]
    /\ health_checks = <<>>
    /\ incidents = <<>>
    /\ clock = 0
    /\ skew = 0
    /\ \E mon \in ProbeMonitors, o \in ProbeOutcomes :
          check_api_call = Some([monitor |-> mon, outcome |-> o, timeout |-> None,
                                 ret |-> None])
    /\ replay = None
    /\ BusIdle

\* await executor.check_api(monitor)
CallCheckApi ==
    /\ IsSome(check_api_call)
    /\ IsNone(Get(check_api_call).ret)
    /\ LET call == Get(check_api_call)
       IN  check_api_call' =
               Some([call EXCEPT !.timeout = Some(RequestTimeout(call.monitor)),
                                 !.ret = Some(check_api(call.monitor, call.outcome))])
    /\ UNCHANGED <<engine_vars, replay, bus_vars>>

NextProbe == CallCheckApi

SpecProbe == InitProbe /\ [][NextProbe]_vars

----------------------------------------------------------------------------
(* Replays: one sequence of probe outcomes of one monitor goes through      *)
(* check_api and handle_incident, call after call, twice: run a and run b   *)
(* each on its own copy of the same incidents table, at their own times.    *)

ReplayMonitor == 1
ReplayRuns == {"a", "b"}

\* The tables a replay starts from: empty, one open incident of the monitor,
\* one resolved incident of the monitor.
ReplayStores ==
    {<<>>,
     <<0, ReplayMonitor>> :> [NewIncident(ReplayMonitor) EXCEPT !.started_at = 0],
     <<0, ReplayMonitor>> :> [NewIncident(ReplayMonitor) EXCEPT
                                  !.started_at = 0,
                                  !.resolved_at = Some(0),
                                  !.duration = Some(0)]}

ReplaySequences == UNION {[1..n -> EngineOutcomes] : n \in 1..MaxReplay}

NewRun(store) == [pos |-> 0, store |-> store, trace |-> <<>>, raised |-> FALSE]

InitReplay ==
    /\ scheduler = 0
    /\ schedulers = <<>>
    /\ cycles = <<>>
    /\ tasks = <<>>
    /\ skipped = 0
    /\ missed = {}
    /\ warned = FALSE
    /\ api_monitors = [m \in MonitorIds |->
                          MonitorRow(DefaultExpectedStatus, DefaultTimeout, TRUE)]
    /\ health_checks = <<>>
    /\ incidents = <<>>
    /\ clock = 0
    /\ skew = 0
    /\ check_api_call = None
    /\ \E outcomes \in ReplaySequences, store \in ReplayStores :
          replay = Some([outcomes |-> outcomes, start |-> store,
                         a |-> NewRun(store), b |-> NewRun(store)])
    /\ BusIdle

\* The next outcome of the sequence in run r: result = check_api(monitor),
\* then handle_incident(monitor.id, result["is_up"]) on the run's table.
ReplayStep(r) ==
    /\ IsSome(replay)
    /\ LET rec == Get(replay)
           run == rec[r]
           pos == run.pos + 1
       IN  /\ ~run.raised
           /\ pos <= Len(rec.outcomes)
           /\ LET result == check_api(api_monitors[ReplayMonitor], rec.outcomes[pos]).value
                  handled == handle_incident(run.store, ReplayMonitor, result.is_up,
                                             <<pos, ReplayMonitor>>)
              IN  replay' = Some([rec EXCEPT ![r] =
                                    [pos |-> pos, store |-> handled.tbl,
                                     trace |-> Append(run.trace, handled.tbl),
                                     raised |-> handled.raised]])
    /\ UNCHANGED <<engine_vars, check_api_call, bus_vars>>

\* Time passes between the calls of a replay.
ReplayClock ==
    /\ IsSome(replay)
    /\ clock < MaxClock
    /\ clock' = clock + 1
    /\ UNCHANGED <<scheduler, schedulers, cycles, tasks, skipped, api_monitors,
                   health_checks, incidents, skew, check_api_call, replay, bus_vars,
                   missed, warned>>

NextReplay ==
    \/ \E r \in ReplayRuns : ReplayStep(r)
    \/ ReplayClock

SpecReplay == InitReplay /\ [][NextReplay]_vars

----------------------------------------------------------------------------
(* The event bus alone: websockets come and go while broadcast is called. *)
(* No code of the repository calls broadcast; its caller is the            *)
(* environment.  Every coroutine is cut at its awaits.                     *)

\* websocket_endpoint: `await ws_manager.connect(websocket)`.  accept, then
\* append; when the client has gone accept raises and the endpoint ends.
Connect(w) ==
    /\ sockets[w].pc = "connect"
    /\ \/ /\ sockets[w].peer = "open"
          /\ active_connections' = Append(active_connections, w)
          /\ sockets' = [sockets EXCEPT ![w].pc = "welcome",
                                        ![w].received = @ \o ConnectSends(w),
                                        ![w].after = ReturnedBroadcasts]
          /\ broadcasts' = NoteChange(broadcasts, {}, {w})
       \/ /\ sockets[w].peer = "gone"
          /\ sockets' = [sockets EXCEPT ![w].pc = "done"]
          /\ UNCHANGED <<active_connections, broadcasts>>
    /\ UNCHANGED <<engine_vars, check_api_call, replay>>

\* send_personal_message({"type": "connected", ...}): the send, or its
\* exception, logged, and disconnect at once.  The endpoint goes on to its
\* receive loop either way.
Welcome(w) ==
    /\ sockets[w].pc = "welcome"
    /\ IF SendRaises(w)
       THEN /\ active_connections' = disconnect(active_connections, w)
            /\ sockets' = [sockets EXCEPT ![w].pc = "receive"]
            /\ broadcasts' = NoteChange(broadcasts,
                                        {w} \cap Range(active_connections), {})
       ELSE /\ sockets' = [v \in Sockets |->
                              [sockets[v] EXCEPT
                                  !.pc = IF v = w THEN "receive" ELSE @,
                                  !.received = IF v \in PersonalRecipients(w)
                                               THEN Append(@, ConnectedMessage)
                                               ELSE @]]
            /\ UNCHANGED <<active_connections, broadcasts>>
    /\ UNCHANGED <<engine_vars, check_api_call, replay>>

\* The client of an entered endpoint goes away.
ClientGone(w) ==
    /\ sockets[w].pc # "done"
    /\ sockets[w].peer = "open"
    /\ sockets' = [sockets EXCEPT ![w].peer = "gone"]
    /\ UNCHANGED <<active_connections, broadcasts, engine_vars, check_api_call, replay>>

\* `await websocket.receive_text()` raises WebSocketDisconnect:
\* ws_manager.disconnect(websocket) and the endpoint returns.
ReceiveDisconnect(w) ==
    /\ sockets[w].pc = "receive"
    /\ sockets[w].peer = "gone"
    /\ active_connections' = disconnect(active_connections, w)
    /\ sockets' = [sockets EXCEPT ![w].pc = "done"]
    /\ broadcasts' = NoteChange(broadcasts, {w} \cap Range(active_connections), {})
    /\ UNCHANGED <<engine_vars, check_api_call, replay>>

\* `data = await websocket.receive_text()` returns a text message of the
\* client: a "ping" is answered, anything else is logged and the loop goes on.
ReceiveText(w, data) ==
    /\ sockets[w].pc = "receive"
    /\ sockets[w].peer = "open"
    /\ TextsRead < MaxTexts
    /\ sockets' = [sockets EXCEPT ![w].texts = Append(@, data),
                                  ![w].pc = IF RepliesTo(data) THEN "pong" ELSE "receive"]
    /\ UNCHANGED <<active_connections, broadcasts, engine_vars, check_api_call, replay>>

\* `await websocket.send_json({"type": "pong"})`: sent, or it raises and the
\* endpoint ends in `except Exception` with ws_manager.disconnect(websocket).
SendPong(w) ==
    /\ sockets[w].pc = "pong"
    /\ IF SendRaises(w)
       THEN /\ active_connections' = disconnect(active_connections, w)
            /\ sockets' = [sockets EXCEPT ![w].pc = "done"]
            /\ broadcasts' = NoteChange(broadcasts,
                                        {w} \cap Range(active_connections), {})
       ELSE /\ sockets' = [sockets EXCEPT ![w].pc = "receive",
                                          ![w].received = Append(@, PongMessage)]
            /\ UNCHANGED <<active_connections, broadcasts>>
    /\ UNCHANGED <<engine_vars, check_api_call, replay>>

\* A broadcast call that has just been made: `snapshot`, `attempted`,
\* `removed`, `added`, `after` and `closed` (the websockets whose endpoint
\* had returned) record what the call met, `index`, `current` and
\* `disconnected` are its locals.
NewBroadcast(origin) ==
    [pc |-> "sending", origin |-> origin, index |-> 1,
     current |-> active_connections[1], disconnected |-> <<>>,
     snapshot |-> active_connections, attempted |-> <<active_connections[1]>>,
     late |-> {active_connections[1]} \cap FailedSockets,
     removed |-> {}, added |-> {}, after |-> ReturnedBroadcasts,
     closed |-> ReturnedEndpoints]

\* broadcast(message) is called: it returns at once on an empty list; else
\* the iterator yields the first connection and send_json is awaited.
BroadcastStart ==
    /\ Len(broadcasts) < MaxBroadcasts
    /\ broadcasts' = Append(broadcasts,
           IF active_connections = <<>>
           THEN [pc |-> "done", origin |-> None, index |-> 0, current |-> 0,
                 disconnected |-> <<>>, snapshot |-> <<>>, attempted |-> <<>>,
                 late |-> {}, removed |-> {}, added |-> {},
                 after |-> ReturnedBroadcasts, closed |-> ReturnedEndpoints]
           ELSE NewBroadcast(None))
    /\ UNCHANGED <<active_connections, sockets, engine_vars, check_api_call, replay>>

\* `await connection.send_json(message)` of broadcast b ends: delivered, or
\* raised and the connection is appended to `disconnected`.  Then the
\* iterator yields the next connection, or the loop ends and the failed
\* connections are removed before broadcast returns.  The send ends after
\* the sends to that connection that were called before it.
BroadcastSendDone(b) ==
    /\ broadcasts[b].pc = "sending"
    /\ ~WelcomePending(broadcasts[b].current)
    /\ LET cur == broadcasts[b].current
           failed == SendRaises(cur)
           disconnected == IF failed THEN Append(broadcasts[b].disconnected, cur)
                           ELSE broadcasts[b].disconnected
           index == broadcasts[b].index
       IN  /\ sockets' = IF failed THEN sockets
                         ELSE [sockets EXCEPT ![cur].received =
                                                  Append(@, BroadcastMessage(b))]
           /\ IF HasNext(index, active_connections)
              THEN LET next == active_connections[index + 1]
                   IN  /\ broadcasts' = [broadcasts EXCEPT ![b] =
                              [@ EXCEPT !.disconnected = disconnected,
                                        !.index = index + 1,
                                        !.current = next,
                                        !.attempted = Append(@, next),
                                        !.late = @ \cup ({next} \cap
                                            (FailedSockets \cup Range(disconnected)))]]
                       /\ UNCHANGED active_connections
              ELSE /\ active_connections' = RemoveFailed(active_connections, disconnected)
                   /\ broadcasts' = [NoteChange(broadcasts,
                                          Range(disconnected) \cap Range(active_connections),
                                          {})
                                     EXCEPT ![b] =
                              [broadcasts[b] EXCEPT !.pc = "done",
                                                    !.disconnected = disconnected]]
    /\ UNCHANGED <<engine_vars, check_api_call, replay>>

InitBus ==
    /\ scheduler = 0
    /\ schedulers = <<>>
    /\ cycles = <<>>
    /\ tasks = <<>>
    /\ skipped = 0
    /\ missed = {}
    /\ warned = FALSE
    /\ api_monitors = [m \in MonitorIds |->
                          MonitorRow(DefaultExpectedStatus, DefaultTimeout, TRUE)]
    /\ health_checks = <<>>
    /\ incidents = <<>>
    /\ clock = 0
    /\ skew = 0
    /\ check_api_call = None
    /\ replay = None
    /\ BusIdle

NextBus ==
    \/ \E w \in Sockets : Connect(w)
    \/ \E w \in Sockets : Welcome(w)
    \/ \E w \in Sockets : ClientGone(w)
    \/ \E w \in Sockets : ReceiveDisconnect(w)
    \/ \E w \in Sockets, data \in ClientTexts : ReceiveText(w, data)
    \/ \E w \in Sockets : SendPong(w)
    \/ BroadcastStart
    \/ \E b \in 1..Len(broadcasts) : BroadcastSendDone(b)

SpecBus == InitBus /\ [][NextBus]_vars

----------------------------------------------------------------------------
(* Properties of the incident tracker *)

IsUpOf(k) == Get(tasks[k].result).is_up
OpenBefore(k) == {r \in tasks[k].pre : IsNone(r.row.resolved_at)}

\* C1: in every reachable state every monitor id has at most one Incident
\* whose resolved_at is absent.
AtMostOneOpenIncident ==
    \A m \in MonitorIds : Cardinality(OngoingIncidents(incidents, m)) <= 1

\* A failed check was handled in a later cycle while the incident of an
\* earlier cycle was open.
DownWhileIncidentOpen ==
    \E k \in TaskKeys :
        /\ k[1] >= 2
        /\ tasks[k].handled
        /\ ~IsUpOf(k)
        /\ IsSome(tasks[k].ongoing)
        /\ Cardinality(OngoingIncidents(incidents, k[2])) = 1

ReturnsTransitionedIncident ==
    \A k \in TaskKeys :
        tasks[k].handled =>
            LET open == OpenBefore(k)
                ret == tasks[k].ret
                no_transition == \/ open = {} /\ IsUpOf(k)
                                 \/ open # {} /\ ~IsUpOf(k)
            IN  /\ IsNone(ret) <=> no_transition
                /\ IsSome(ret) =>
                      /\ Get(ret) \in DOMAIN incidents
                      /\ incidents[Get(ret)].monitor_id = k[2]
                      /\ IF IsUpOf(k)
                         THEN /\ Get(ret) \in {r.id : r \in open}
                              /\ IsSome(incidents[Get(ret)].resolved_at)
                         ELSE /\ Get(ret) \notin {r.id : r \in tasks[k].pre}
                              /\ IsNone(incidents[Get(ret)].resolved_at)

\* A call returned the incident it had just created.
ReturnedCreatedIncident ==
    \E k \in TaskKeys :
        /\ tasks[k].handled
        /\ ~IsUpOf(k)
        /\ IsSome(tasks[k].ret)
        /\ Get(tasks[k].ret) \in DOMAIN incidents

TheReplay == Get(replay)
ReplayDone(r) == TheReplay[r].pos = Len(TheReplay.outcomes)
ReplayIsUp(i) ==
    /\ TheReplay.outcomes[i].kind = "response"
    /\ TheReplay.outcomes[i].status = api_monitors[ReplayMonitor].expected_status
ReplayStartsOpen ==
    \E i \in DOMAIN TheReplay.start : IsNone(TheReplay.start[i].resolved_at)

\* The calls of the replayed sequence that meet a failed probe with no open
\* incident: the first call when the start has none, a later call when the
\* probe before it passed.
ReplayOpenings ==
    {i \in 1..Len(TheReplay.outcomes) :
        /\ ~ReplayIsUp(i)
        /\ IF i = 1 THEN ~ReplayStartsOpen ELSE ReplayIsUp(i - 1)}

\* An incidents table without its clock readings.
Shape(tbl) ==
    {[id |-> i, monitor_id |-> tbl[i].monitor_id, open |-> IsNone(tbl[i].resolved_at),
      alert_sent |-> tbl[i].alert_sent] : i \in DOMAIN tbl}

ScenarioA ==
    /\ IsSome(replay)
    /\ TheReplay.start = <<>>
    /\ Len(TheReplay.outcomes) = 3
    /\ \A i \in 1..3 : TheReplay.outcomes[i].kind = "response"
    /\ TheReplay.outcomes[1].status = 500
    /\ TheReplay.outcomes[2].status = 500
    /\ TheReplay.outcomes[3].status = 200
    /\ api_monitors[ReplayMonitor].expected_status = 200

History(r) == <<TheReplay.start>> \o TheReplay[r].trace

\* C32: an Incident is written at most once after its insert: a row stays in
\* the table with its started_at, the only change it undergoes is from open
\* to resolved, and a resolved row is the same after every later
\* handle_incident call.
ResolvedIncidentIsFinal ==
    IsSome(replay) =>
        \A r \in ReplayRuns :
            \A p \in 1..Len(History(r)) : \A q \in p..Len(History(r)) :
                \A i \in DOMAIN History(r)[p] :
                    LET before == History(r)[p][i]
                    IN  /\ i \in DOMAIN History(r)[q]
                        /\ History(r)[q][i].started_at = before.started_at
                        /\ History(r)[q][i].monitor_id = before.monitor_id
                        /\ IsSome(before.resolved_at) => History(r)[q][i] = before

\* A replay started with a resolved incident; later, at a later time, a
\* failed check opened a new incident and a passing check resolved it, and
\* the old incident is as it was.
ResolvedThenCheckedAgain ==
    /\ IsSome(replay)
    /\ \E r \in ReplayRuns : \E i \in DOMAIN TheReplay.start :
           /\ IsSome(TheReplay.start[i].resolved_at)
           /\ TheReplay[r].store[i] = TheReplay.start[i]
           /\ \E j \in DOMAIN TheReplay[r].store \ {i} :
                  /\ IsSome(TheReplay[r].store[j].resolved_at)
                  /\ Get(TheReplay[r].store[j].resolved_at) >
                         Get(TheReplay.start[i].resolved_at)

\* C9: every resolved Incident has duration = resolved_at - started_at in
\* (whole) seconds, and duration >= 0, whatever the two clocks read.
DurationIsElapsedAndNonNegative ==
    \A i \in DOMAIN incidents :
        IsSome(incidents[i].resolved_at) =>
            /\ IsSome(incidents[i].duration)
            /\ Get(incidents[i].duration) =
                   IntTrunc(Get(incidents[i].resolved_at) - incidents[i].started_at,
                            TicksPerSecond)
            /\ Get(incidents[i].duration) >= 0

----------------------------------------------------------------------------
(* Properties of the scheduler and the cycle *)

RunningCycles == {c \in 1..Len(cycles) : CycleRunning(c)}
InFlight(m) == {k \in TaskKeys : k[2] = m /\ ~Finished(k)}

\* C3: at no time are two executions of check_all_active_monitors in progress.
NoOverlappingCycles == Cardinality(RunningCycles) <= 1

\* A tick fired while a cycle was running, and was skipped.
TickSkippedWhileRunning ==
    /\ skipped > 0
    /\ \E c \in RunningCycles : cycles[c].pc = "gathering" /\ TasksOf(c) # {}

\* C4: every monitor has at most one perform_health_check in flight, also
\* when stop_scheduler is followed by start_scheduler.
OneWorkflowPerMonitor == \A m \in MonitorIds : Cardinality(InFlight(m)) <= 1

\* The scheduler was stopped during a cycle over monitor m, started again, and
\* the new scheduler's cycle has a workflow of m in flight.
ProbedAgainAfterRestart ==
    \E c1 \in 1..Len(cycles), c2 \in 1..Len(cycles) :
        /\ c1 < c2
        /\ cycles[c1].pc = "cancelled"
        /\ cycles[c2].sched # cycles[c1].sched
        /\ \E m \in DOMAIN cycles[c1].monitors : InFlight(m) = {<<c2, m>>}

\* C5: a failure of save_health_check or handle_incident in one workflow
\* changes neither the cycle nor the sibling workflows nor the tables, and
\* the cycle completes only when every monitor of the cycle has a finished
\* workflow, persisted and incident-handled unless its own store calls failed.
FailureIsolatedStep ==
    /\ \A k \in TaskKeys :
          (tasks[k].status = "running" /\ k \in DOMAIN tasks'
              /\ tasks'[k].status = "errored") =>
             /\ cycles' = cycles
             /\ health_checks' = health_checks
             /\ incidents' = incidents
             /\ \A j \in TasksOf(k[1]) \ {k} : j \in DOMAIN tasks' /\ tasks'[j] = tasks[j]
    /\ \A c \in 1..Len(cycles) :
          /\ cycles[c].pc = "gathering" =>
                cycles'[c].pc \in {"gathering", "done", "cancelled"}
          /\ (cycles[c].pc = "gathering" /\ cycles'[c].pc = "done") =>
                \A m \in DOMAIN cycles[c].monitors :
                    /\ <<c, m>> \in TaskKeys
                    /\ Finished(<<c, m>>)
                    /\ tasks[<<c, m>>].status \in {"ok", "errored"}
                    /\ tasks[<<c, m>>].status = "ok" =>
                          /\ tasks[<<c, m>>].saved
                          /\ tasks[<<c, m>>].handled
                          /\ <<c, m>> \in DOMAIN health_checks

FailureIsolated == [][FailureIsolatedStep]_vars

\* One workflow of a cycle failed in the store; a sibling was probed,
\* persisted and incident-handled all the same.
SiblingHandledDespiteFailure ==
    \E k \in TaskKeys, j \in TaskKeys :
        /\ k[1] = j[1]
        /\ k # j
        /\ tasks[k].status = "errored"
        /\ IsSome(tasks[k].result)
        /\ tasks[j].status = "ok"
        /\ tasks[j].saved
        /\ tasks[j].handled
        /\ j \in DOMAIN health_checks

\* The monitors whose is_active is set.
ActiveIds == {m \in MonitorIds : api_monitors[m].is_active}

ResultsOfCycle(c) == {k \in DOMAIN health_checks : k[1] = c}

\* C13: a cycle over N active monitors whose store calls all succeed has
\* persisted exactly N check results when it completes, one per monitor; the
\* result of a probe that met a network error has is_up false, no status
\* code and the network error message.
OneResultPerMonitorStep ==
    \A c \in 1..Len(cycles) :
        (/\ cycles[c].pc = "gathering"
         /\ cycles'[c].pc = "done"
         /\ \A k \in TasksOf(c) : tasks[k].status = "ok") =>
            /\ Cardinality(ResultsOfCycle(c)) = Cardinality(ActiveIds)
            /\ \A m \in ActiveIds :
                  Cardinality({k \in ResultsOfCycle(c) :
                                  health_checks[k].monitor_id = m}) = 1
            /\ \A k \in TasksOf(c) :
                  LET o == Get(tasks[k].outcome)
                  IN  (o.kind = "exception" /\ o.cls \in {"ConnectError", "ReadError",
                                                          "WriteError", "CloseError"}) =>
                         \A j \in ResultsOfCycle(c) :
                             health_checks[j].monitor_id = k[2] =>
                                 /\ ~health_checks[j].is_up
                                 /\ IsNone(health_checks[j].status_code)
                                 /\ health_checks[j].error_message =
                                        Some("Network error: " \o o.detail)

OneResultPerMonitor == [][OneResultPerMonitorStep]_vars

\* Every workflow of a cycle over two monitors has ended well; one of the
\* probes met a network error, the other a response.
TwoMonitorsOneNetworkError ==
    \E c \in 1..Len(cycles) :
        /\ cycles[c].pc = "gathering"
        /\ Cardinality(TasksOf(c)) = 2
        /\ \A k \in TasksOf(c) : Finished(k) /\ tasks[k].status = "ok"
        /\ \E k \in TasksOf(c) : Get(tasks[k].outcome).kind = "exception"
        /\ \E k \in TasksOf(c) : Get(tasks[k].outcome).kind = "response"
        /\ Cardinality(ResultsOfCycle(c)) = 2

\* C14: every cycle that ran over at least one active monitor has signalled
\* exactly one stats_updated broadcast once it is complete.
CycleBroadcastsOnce ==
    \A c \in 1..Len(cycles) :
        (cycles[c].pc = "done" /\ cycles[c].monitors # <<>>) =>
            Cardinality({b \in 1..Len(broadcasts) :
                            broadcasts[b].origin = Some(c)}) = 1

\* C15: a cycle that finds no active monitor completes at once and leaves
\* the tables, the workflows and the event bus as they are: no probe, no
\* result, no incident, no broadcast.
ZeroActiveIsNoOpStep ==
    \A c \in 1..Len(cycles) :
        /\ (/\ cycles[c].pc = "loading"
            /\ ActiveIds = {}
            /\ cycles'[c].pc \notin {"loading", "cancelled", "failed"}) =>
               /\ cycles'[c].pc = "done"
               /\ cycles'[c].monitors = <<>>
               /\ UNCHANGED <<tasks, health_checks, incidents, bus_vars>>
        /\ (cycles[c].pc = "done" /\ cycles[c].monitors = <<>>) =>
               /\ cycles'[c] = cycles[c]
               /\ \A k \in DOMAIN tasks' : k[1] # c
               /\ \A k \in DOMAIN health_checks' : k[1] # c
               /\ \A k \in DOMAIN incidents' : k[1] # c

ZeroActiveIsNoOp == [][ZeroActiveIsNoOpStep]_vars

\* A cycle ran with no monitor active and is complete.
CompletedWithNoActiveMonitor ==
    /\ ActiveIds = {}
    /\ \E c \in 1..Len(cycles) : cycles[c].pc = "done"
    /\ health_checks = <<>>
    /\ incidents = <<>>
    /\ broadcasts = <<>>

\* C20: a tick is skipped only while a cycle runs and then starts nothing; a
\* cycle starts only by a tick that meets no running cycle; the step that
\* ends the running cycle starts none.
SkippedTickNotQueuedStep ==
    /\ skipped' # skipped =>
          /\ RunningCycles # {}
          /\ cycles' = cycles
          /\ tasks' = tasks
    /\ Len(cycles') # Len(cycles) =>
          /\ RunningCycles = {}
          /\ skipped' = skipped
    /\ \A c \in RunningCycles :
          ~CycleRunning(c)' => Len(cycles') = Len(cycles)

SkippedTickNotQueued == [][SkippedTickNotQueuedStep]_vars

\* A tick was skipped during the only cycle so far, that cycle is complete
\* and no other has started.
SkippedAndCycleOver ==
    /\ skipped > 0
    /\ Len(cycles) = 1
    /\ cycles[1].pc = "done"
    /\ cycles[1].monitors # <<>>

\* C21: while a scheduler exists no step creates another scheduler or adds a
\* job, at most one scheduler runs, and the start_scheduler call that logs
\* "Scheduler already running" changes nothing else.
StartIsIdempotentStep ==
    /\ Cardinality({n \in 1..Len(schedulers) : schedulers[n].state = "running"}) <= 1
    /\ scheduler # 0 =>
          /\ Len(schedulers') = Len(schedulers)
          /\ scheduler' \in {scheduler, 0}
          /\ \A n \in 1..Len(schedulers) : schedulers'[n].jobs \subseteq schedulers[n].jobs
    /\ (~warned /\ warned') =>
          /\ scheduler # 0
          /\ UNCHANGED <<scheduler, schedulers, cycles, tasks, skipped, missed,
                         api_monitors, health_checks, incidents>>

StartIsIdempotent == [][StartIsIdempotentStep]_vars

\* start_scheduler was called on the running scheduler, which goes on with
\* its one job.
StartedWhileRunning ==
    /\ warned
    /\ scheduler = 1
    /\ Len(schedulers) = 1
    /\ schedulers[1].jobs = {JobId}
    /\ cycles # <<>>

\* C22: stop_scheduler never cuts a cycle short: no run of
\* check_all_active_monitors ends cancelled.
StopWaitsForCycle == \A c \in 1..Len(cycles) : cycles[c].pc # "cancelled"

\* C23: a run that is late by at most the grace time of 30 s starts one
\* cycle; a run that is late by more is dropped and starts nothing.
GraceWindowStep ==
    /\ \A c \in 1..Len(cycles) : cycles[c].late <= 30
    /\ \A late \in missed : late > 30
    /\ Len(cycles') <= Len(cycles) + 1
    /\ missed' # missed => cycles' = cycles /\ tasks' = tasks

GraceWindowHonoured == [][GraceWindowStep]_vars

\* A run 30 s late has started a cycle and a run 31 s late was dropped.
LateRunFiredLaterRunDropped ==
    /\ \E c \in 1..Len(cycles) : cycles[c].late = 30
    /\ 31 \in missed

\* C24: a cycle whose query of the active monitors fails starts no workflow
\* and inserts nothing, leaves the scheduler as it is, and does not make a
\* later tick skip: ticks are skipped only while a cycle is loading or
\* gathering.
LoadFailureStep ==
    /\ \A c \in 1..Len(cycles) :
          /\ (cycles[c].pc = "loading" /\ cycles'[c].pc = "failed") =>
                UNCHANGED <<tasks, health_checks, incidents, scheduler, schedulers,
                            skipped, bus_vars>>
          /\ cycles[c].pc = "failed" =>
                /\ cycles'[c] = cycles[c]
                /\ \A k \in DOMAIN tasks' : k[1] # c
                /\ \A k \in DOMAIN health_checks' : k[1] # c
                /\ \A k \in DOMAIN incidents' : k[1] # c
    /\ skipped' # skipped =>
          \E c \in 1..Len(cycles) : cycles[c].pc \in {"loading", "gathering"}

LoadFailureIsolated == [][LoadFailureStep]_vars

\* The first cycle failed to load the monitors; the same scheduler's next
\* tick has started the second cycle, which is at work.
NextCycleAfterLoadFailure ==
    /\ Len(cycles) = 2
    /\ cycles[1].pc = "failed"
    /\ cycles[2].sched = cycles[1].sched
    /\ TasksOf(2) # {}
    /\ skipped = 0

\* C33: a cycle's workflows are those of the monitors that were active when
\* it ran its query, one each, with the rows it read; while the cycle runs no
\* step adds, drops or restarts a workflow of it, each workflow is probed
\* once, the cycle completes only with all of them probed, and an edit of
\* the monitors changes neither cycles nor workflows nor tables.
SnapshotPerCycleStep ==
    /\ \A c \in 1..Len(cycles) :
          /\ (cycles[c].pc = "loading" /\ cycles'[c].pc = "gathering") =>
                LET active == {m \in DOMAIN api_monitors : api_monitors[m].is_active}
                IN  /\ DOMAIN cycles'[c].monitors = active
                    /\ {k \in DOMAIN tasks' : k[1] = c} = {c} \X active
                    /\ \A m \in active :
                           /\ tasks'[<<c, m>>].monitor = api_monitors[m]
                           /\ tasks'[<<c, m>>].pc = "check_api"
                           /\ IsNone(tasks'[<<c, m>>].outcome)
          /\ cycles[c].pc = "gathering" =>
                /\ TasksOf(c) = {c} \X DOMAIN cycles[c].monitors
                /\ cycles'[c].monitors = cycles[c].monitors
                /\ cycles'[c].pc = "gathering" =>
                       /\ {k \in DOMAIN tasks' : k[1] = c} = TasksOf(c)
                       /\ \A k \in TasksOf(c) : tasks'[k].monitor = tasks[k].monitor
                /\ cycles'[c].pc = "done" =>
                       \A k \in TasksOf(c) : IsSome(tasks[k].outcome)
          /\ cycles[c].pc \notin {"loading", "gathering"} =>
                /\ cycles'[c] = cycles[c]
                /\ \A k \in DOMAIN tasks' : k[1] # c
    /\ \A k \in TaskKeys :
          /\ tasks[k].pc = "check_api" <=> IsNone(tasks[k].outcome)
          /\ (IsSome(tasks[k].outcome) /\ k \in DOMAIN tasks') =>
                tasks'[k].outcome = tasks[k].outcome
    /\ api_monitors' # api_monitors =>
          UNCHANGED <<cycles, tasks, health_checks, incidents, scheduler, schedulers>>

SnapshotPerCycle == [][SnapshotPerCycleStep]_vars

\* The first cycle ran over monitor 1 alone.  Monitor 2 was created and
\* monitor 1 switched off before the second cycle loaded, and monitor 1 was
\* switched on again while the second cycle ran: that cycle has probed
\* monitor 2 and nothing else.
EditedWhileCycleRan ==
    /\ Len(cycles) = 2
    /\ DOMAIN cycles[1].monitors = {1}
    /\ cycles[1].pc = "done"
    /\ cycles[2].pc = "gathering"
    /\ DOMAIN cycles[2].monitors = {2}
    /\ TasksOf(2) = {<<2, 2>>}
    /\ Finished(<<2, 2>>)
    /\ DOMAIN health_checks = {<<1, 1>>, <<2, 2>>}
    /\ Len(api_monitors) = 2
    /\ api_monitors[1].is_active
    /\ api_monitors[2].is_active

\* C34: a workflow that has not ended belongs to a cycle that is still
\* waiting in its gather: once a cycle has returned (complete, failed or
\* cancelled) none of its workflows is left.
NoWorkflowOutlivesCycle ==
    /\ \A k \in TaskKeys : ~Finished(k) => cycles[k[1]].pc = "gathering"
    /\ \A c \in 1..Len(cycles) : cycles[c].pc # "gathering" => TasksOf(c) = {}

\* A cycle over two monitors has returned: one workflow had stored its
\* result, the other had failed, and a later cycle is at work.
ReturnedAfterBothWorkflows ==
    /\ Len(cycles) = 2
    /\ cycles[1].pc = "done"
    /\ DOMAIN cycles[1].monitors = {1, 2}
    /\ \E m \in {1, 2} : <<1, m>> \in DOMAIN health_checks
    /\ \E m \in {1, 2} : <<1, m>> \notin DOMAIN health_checks
    /\ \E k \in TasksOf(2) : ~Finished(k)

\* C35: every cycle that has started comes to its end (complete, or failed
\* at its query, or cancelled by stop_scheduler), every workflow that has
\* started ends or is cancelled, and a scheduler whose job has reached
\* max_instances gets the instance back: ticks are not skipped for ever.
EveryCycleEnds ==
    /\ \A c \in CycleIds :
          (c <= Len(cycles) /\ cycles[c].pc \in {"loading", "gathering"})
              ~> (c <= Len(cycles) /\ cycles[c].pc \in {"done", "failed", "cancelled"})
    /\ \A k \in CycleIds \X MonitorIds :
          (k \in TaskKeys /\ ~Finished(k)) ~> (k \notin TaskKeys \/ Finished(k))
    /\ \A n \in 1..MaxStarts :
          (n <= Len(schedulers) /\ MaxInstancesReached(n)) ~> ~MaxInstancesReached(n)

\* The second cycle of one scheduler is complete, after a first cycle during
\* which a tick was skipped and a workflow failed in the store.
SecondCycleCompleted ==
    /\ Len(cycles) = 2
    /\ cycles[1].pc = "done"
    /\ cycles[2].pc = "done"
    /\ cycles[2].sched = cycles[1].sched
    /\ cycles[2].monitors # <<>>
    /\ skipped > 0
    /\ \E m \in DOMAIN cycles[1].monitors : <<1, m>> \notin DOMAIN health_checks

\* The check results of monitor m, and the latest of them (rows are inserted
\* cycle after cycle).
ResultsOf(m) == {k \in DOMAIN health_checks : k[2] = m}
LatestResult(m) == CHOOSE k \in ResultsOf(m) : \A j \in ResultsOf(m) : j[1] <= k[1]

\* C36: with no cycle at work, and no store operation having failed, a
\* monitor has an open incident exactly when its latest check result is
\* down.
OpenIffLatestDown ==
    RunningCycles = {} =>
        \A m \in MonitorIds :
            OngoingIncidents(incidents, m) # {} <=>
                (ResultsOf(m) # {} /\ ~health_checks[LatestResult(m)].is_up)

StoppedUntilStarted ==
    /\ \A n \in 1..Len(schedulers) :
          n # scheduler => schedulers[n].state = "shutdown" /\ schedulers[n].jobs = {}
    /\ scheduler # 0 =>
          /\ scheduler = Len(schedulers)
          /\ schedulers[scheduler].state = "running"
          /\ schedulers[scheduler].jobs = {"health_check_job"}
    /\ \A c \in 1..Len(cycles) :
          cycles[c].pc \in {"loading", "gathering"} => cycles[c].sched = scheduler
    /\ scheduler = 0 => \A k \in TaskKeys : Finished(k)

\* The first scheduler ran a cycle to its end and was stopped; the second
\* one, started afterwards, has ticked and its cycle is at work.
TickingResumed ==
    /\ Len(schedulers) = 2
    /\ scheduler = 2
    /\ schedulers[1].state = "shutdown"
    /\ Len(cycles) = 2
    /\ cycles[1].sched = 1
    /\ cycles[1].pc = "done"
    /\ cycles[2].sched = 2
    /\ TasksOf(2) # {}

\* C28: a complete cycle has reported a summary whose up, down and errored
\* counts are those of its monitors.
CycleReportsSummary ==
    \A c \in 1..Len(cycles) :
        (cycles[c].pc = "done" /\ cycles[c].monitors # <<>>) =>
            /\ IsSome(cycles[c].summary)
            /\ LET summary == Get(cycles[c].summary)
                   n == Cardinality(DOMAIN cycles[c].monitors)
                   up == Cardinality({k \in ResultsOfCycle(c) : health_checks[k].is_up})
                   down == Cardinality({k \in ResultsOfCycle(c) : ~health_checks[k].is_up})
               IN  /\ summary.up = up
                   /\ summary.down = down
                   /\ summary.up + summary.down + summary.errored = n

\* The probe of workflow k has returned and its result is not in the store.
Unsaved(k) ==
    /\ IsSome(tasks[k].result)
    /\ tasks[k].pc \notin {"check_api", "save"}
    /\ ~tasks[k].saved

\* C29: a workflow is at its incident evaluation, or past it, only with its
\* check result committed; and a workflow starts for a monitor only when no
\* earlier workflow of that monitor is unfinished.
PersistThenEvaluateStep ==
    /\ \A k \in TaskKeys :
          (tasks[k].pc \in {"query", "commit_create", "commit_resolve"}
              \/ tasks[k].handled) =>
             /\ tasks[k].saved
             /\ k \in DOMAIN health_checks
             /\ health_checks[k].monitor_id = k[2]
    /\ \A k \in DOMAIN tasks' \ DOMAIN tasks :
          \A j \in TaskKeys : j[2] = k[2] => Finished(j)

PersistThenEvaluate == [][PersistThenEvaluateStep]_vars

\* A monitor checked in the first cycle has its second cycle's result stored
\* and its incident state evaluated.
EvaluatedAgainInNextCycle ==
    \E k \in TaskKeys :
        /\ k[1] = 2
        /\ <<1, k[2]>> \in DOMAIN health_checks
        /\ k \in DOMAIN health_checks
        /\ tasks[k].handled

\* C30: a workflow whose save failed has ended, with no check result and no
\* incident of its own, and from the start of the workflow to the end of its
\* cycle no step changes the incidents of its monitor.
DroppedResultStep ==
    \A k \in TaskKeys :
        /\ Unsaved(k) =>
              /\ Finished(k)
              /\ tasks[k].status = "errored"
              /\ ~tasks[k].handled
              /\ k \notin DOMAIN health_checks
              /\ k \notin DOMAIN incidents
        /\ (tasks[k].pc \in {"check_api", "save"} \/ Unsaved(k)) =>
              MonitorIncidents(incidents', k[2]) = MonitorIncidents(incidents, k[2])

ResultDroppedOnSaveFailure == [][DroppedResultStep]_vars

\* The save of a failed check raised in the second cycle, while the incident
\* of the first cycle is open; the other monitor's workflow went through.
FailedCheckDropped ==
    \E k \in TaskKeys :
        /\ k[1] = 2
        /\ Unsaved(k)
        /\ ~Get(tasks[k].result).is_up
        /\ OngoingIncidents(incidents, k[2]) = {<<1, k[2]>>}

----------------------------------------------------------------------------
(* Properties of the event bus *)

Occurrences(list, x) == Cardinality({i \in 1..Len(list) : list[i] = x})

\* The websockets that were registered when broadcast b was called and
\* stayed registered while it was sending.
LiveThroughout(b) == Range(broadcasts[b].snapshot) \ broadcasts[b].removed

Delivered(b, w) == Occurrences(sockets[w].received, BroadcastMessage(b))

\* C16: when a delivery of a broadcast fails, the failed subscriber is
\* removed from the active set, every other subscriber of the active set
\* still receives the event in the same broadcast, and a later broadcast
\* attempts no delivery to the failed one.
FailedDroppedOthersServed ==
    \A b \in ReturnedBroadcasts :
        broadcasts[b].disconnected # <<>> =>
            /\ \A w \in Range(broadcasts[b].disconnected) :
                   w \notin Range(active_connections)
            /\ \A w \in LiveThroughout(b) \ Range(broadcasts[b].disconnected) :
                   Delivered(b, w) = 1
            /\ \A b2 \in 1..Len(broadcasts) :
                   b \in broadcasts[b2].after =>
                       Range(broadcasts[b2].attempted)
                           \cap Range(broadcasts[b].disconnected) = {}

\* C17: a broadcast attempts delivery exactly once to every subscriber that
\* is in the active set for the whole of the broadcast, whatever connects
\* and disconnects run between its sends.
DeliversOnceToLive ==
    \A b \in ReturnedBroadcasts :
        \A w \in LiveThroughout(b) : Occurrences(broadcasts[b].attempted, w) = 1

\* C18: a subscriber to whom a delivery has failed is out of the active set
\* from that step on, and no delivery to it is attempted afterwards, by any
\* broadcast.
FailedRemovedAtOnce ==
    /\ \A w \in FailedSockets : w \notin Range(active_connections)
    /\ \A b \in 1..Len(broadcasts) : broadcasts[b].late = {}

\* C19: a websocket registered after a broadcast call has returned never
\* gets that broadcast's event.
NoBacklog ==
    \A w \in Sockets : \A b \in sockets[w].after : Delivered(b, w) = 0

\* A broadcast delivered its event and returned; a websocket registered
\* afterwards has its connected message and the later broadcast's event.
ConnectedAfterBroadcast ==
    \E w \in Sockets : \E b \in sockets[w].after : \E v \in Sockets \ {w} :
        /\ Delivered(b, v) = 1
        /\ Occurrences(sockets[w].received, ConnectedMessage) = 1
        /\ \E b2 \in ReturnedBroadcasts \ {b} : Delivered(b2, w) = 1

Pings(w) == Occurrences(sockets[w].texts, "ping")
Pongs(w) == Occurrences(sockets[w].received, PongMessage)
Acks(w) == Occurrences(sockets[w].received, ConnectedMessage)

\* C25: a "ping" of a client is answered by one pong, appended to that
\* client's messages only, and no step of the exchange calls broadcast or
\* touches the engine; any other text changes nothing but the count of texts
\* read.
PingPongStep ==
    \A w \in Sockets :
        /\ Pongs(w) <= Pings(w)
        /\ (sockets[w].pc = "receive" /\ sockets[w].peer = "open") => Pongs(w) = Pings(w)
        /\ sockets'[w].texts # sockets[w].texts =>
              /\ UNCHANGED <<active_connections, broadcasts, engine_vars>>
              /\ \A v \in Sockets \ {w} : sockets'[v] = sockets[v]
              /\ sockets'[w].received = sockets[w].received
              /\ sockets'[w].texts[Len(sockets'[w].texts)] # "ping" =>
                    sockets'[w] = [sockets[w] EXCEPT !.texts = sockets'[w].texts]
        /\ Pongs(w)' # Pongs(w) =>
              /\ sockets[w].pc = "pong"
              /\ sockets'[w].received = Append(sockets[w].received, PongMessage)
              /\ \A v \in Sockets \ {w} : sockets'[v] = sockets[v]
              /\ UNCHANGED <<active_connections, broadcasts, engine_vars>>

AckOnceStep ==
    \A w \in Sockets :
        /\ Acks(w) <= 1
        /\ sockets[w].pc \in {"connect", "welcome"} => Acks(w) = 0
        /\ (sockets[w].pc \in {"receive", "pong"} /\ sockets[w].peer = "open") => Acks(w) = 1
        /\ Acks(w)' # Acks(w) =>
              /\ sockets[w].pc = "welcome"
              /\ \A v \in Sockets \ {w} : sockets'[v] = sockets[v]
              /\ UNCHANGED <<active_connections, broadcasts, engine_vars>>

AckOncePerConnect == [][AckOnceStep]_vars

\* Two websockets are registered and each has its one connected message.
BothAcknowledged ==
    /\ Cardinality(Range(active_connections)) = 2
    /\ \A w \in Range(active_connections) :
          /\ sockets[w].pc = "receive"
          /\ sockets[w].peer = "open"
          /\ Acks(w) = 1

Without(list, w) == SelectSeq(list, LAMBDA x : x # w)

\* C27: a websocket whose endpoint has returned is not in
\* active_connections, and a broadcast called afterwards attempts no
\* delivery to it; the step that ends an endpoint takes that websocket, and
\* no other, out of the list, and leaves the list as it is when the
\* websocket is not in it.
ClosedIsUnregisteredStep ==
    /\ \A w \in Sockets : sockets[w].pc = "done" => w \notin Range(active_connections)
    /\ \A b \in 1..Len(broadcasts) :
          broadcasts[b].closed \cap Range(broadcasts[b].attempted) = {}
    /\ \A w \in Sockets :
          (sockets[w].pc # "done" /\ sockets'[w].pc = "done") =>
              active_connections' = Without(active_connections, w)

ClosedIsUnregistered == [][ClosedIsUnregisteredStep]_vars

\* One client has closed and its endpoint has returned; a broadcast called
\* afterwards has delivered its event to the other websocket.
BroadcastAfterClose ==
    \E b \in ReturnedBroadcasts : \E w \in broadcasts[b].closed :
        /\ Acks(w) = 1
        /\ \E v \in Sockets \ {w} : Delivered(b, v) = 1

----------------------------------------------------------------------------
(* Properties of check_api *)

Returned == IsSome(check_api_call) /\ IsSome(Get(check_api_call).ret)
TheCall == Get(check_api_call)
TheReturn == Get(TheCall.ret)

\* C6: is_up is true iff a response was received and its status code equals
\* expected_status; every exception path yields is_up false, a non-empty
\* error_message and no status_code.
IsUpIffExpectedStatus ==
    (Returned /\ ~TheReturn.raised) =>
        LET r == TheReturn.value
            o == TheCall.outcome
        IN  /\ r.is_up <=> (o.kind = "response" /\ o.status = TheCall.monitor.expected_status)
            /\ r.is_up => r.status_code = Some(TheCall.monitor.expected_status)
            /\ o.kind = "exception" =>
                  /\ ~r.is_up
                  /\ IsSome(r.error_message)
                  /\ Len(Get(r.error_message)) > 0
                  /\ IsNone(r.status_code)

\* A call returned is_up true.
ReturnedUp == Returned /\ TheReturn.value.is_up

ConnectWithinTotal ==
    Returned =>
        /\ TheCall.monitor.timeout \in 1..60
        /\ Get(TheCall.timeout).connect <= TheCall.monitor.timeout

\* C8: a failed probe is exactly one of Timeout, NetworkError and
\* UnexpectedError, with that kind's message, is_up false and neither
\* status_code nor response_time.
FailureClassified ==
    (Returned /\ ~TheReturn.raised /\ TheCall.outcome.kind = "exception") =>
        LET r == TheReturn.value
            o == TheCall.outcome
            timeout_msg ==
                "Request timeout after " \o ToString(TheCall.monitor.timeout) \o "s"
            network_msg == "Network error: " \o o.detail
            unexpected_msg == "Unexpected error: " \o o.detail
            kind == IF o.cls \in {"ConnectTimeout", "ReadTimeout", "WriteTimeout",
                                  "PoolTimeout"} THEN 1
                    ELSE IF o.cls \in {"ConnectError", "ReadError", "WriteError",
                                       "CloseError"} THEN 2
                    ELSE 3
            msgs == <<timeout_msg, network_msg, unexpected_msg>>
        IN  /\ ~r.is_up
            /\ IsNone(r.status_code)
            /\ IsNone(r.response_time)
            /\ r.error_message = Some(msgs[kind])
            /\ Cardinality({i \in 1..3 : r.error_message = Some(msgs[i])}) = 1

\* A call whose request raised a network error other than a failed connect
\* has returned.
ReturnedAfterNetworkError ==
    /\ Returned
    /\ TheCall.outcome.kind = "exception"
    /\ TheCall.outcome.cls = "ReadError"

====
